---- MODULE Spec2Model ----
(***************************************************************************)
(* Credit ledger (credits.service.ts), POST /api/designs/generate and the  *)
(* Stripe webhook handlers, over one account row of the users table, the   *)
(* credit_transactions table and the subscriptions table.                  *)
(*                                                                         *)
(* The database handle is drizzle over a pg Pool and no function opens a   *)
(* transaction, so every awaited statement commits on its own: a row lock  *)
(* taken by SELECT ... FOR UPDATE ends with that statement.  One action of *)
(* the model is one awaited statement together with the synchronous code   *)
(* that runs when it resolves; a call and its first statement are one      *)
(* action (nothing of the caller is visible between the two).              *)
(***************************************************************************)
EXTENDS Integers, Sequences, FiniteSets, TLC

VARIABLES
    user,      \* the account's row of the users table
    ledger,    \* the account's rows of credit_transactions, in insertion order
    subs,      \* the rows of the subscriptions table, in insertion order
    now,       \* the clock: an index into Instants
    pc,        \* per handler: the statement it awaits ("idle": not running)
    loc,       \* per handler: its local variables, and its last result
    gh,        \* history of the operation each handler runs
    last,      \* history: the operation that completed last, undisturbed
    started,   \* operations started so far
    faults,    \* statements rejected so far
    user0,     \* the balance and the number of ledger rows at the start
    created    \* the rows inserted into users for the identity's Firebase uid

vars == <<user, ledger, subs, now, pc, loc, gh, last, started, faults, user0, created>>

(* ------------------------------ bounds -------------------------------- *)
\* operations (service calls, requests, webhook deliveries) started in a run
MaxOps == 2
\* amounts passed to deductCredits / refundCredits / addCredits: 1..MaxAmount
MaxAmount == 2
\* statements that the database rejects in a run
MaxFaults == 1

\* the concurrently running handlers
Procs == {"p1", "p2"}

(* ------------------------- program constants -------------------------- *)
FREE_TIER_MONTHLY_CREDITS == 3
DeletedCreditsBalance == 3
InitialCreditsBalance == 3
ResetPeriodDays == 30
\* requireCredits(1) and deductCredits(userId, 1, ...) of POST /generate
GenerateCost == 1

NULL == "null"
\* a null timestamp column
NullDate == -1
Amounts == 1..MaxAmount
PaidTiers == {"basic", "professional"}

\* the clock counts half days; a run passes through these instants
\* (day 0 and day 29.5)
DayUnits == 2
Instants == <<0, 59>>

(* ------------------------------- state -------------------------------- *)
NoEvent == [type |-> "none", tier |-> "free", status |-> "none", periodEnd |-> NullDate,
            cancelAtPeriodEnd |-> FALSE, sub |-> NULL, cust |-> NULL]

\* the locals of a handler that is not running.  res is the result of its
\* last operation; an insufficient-credits error carries the balance read and
\* the amount needed (bal, amt), as its message does.  tx is the id of the
\* usage row deductCredits returned to POST /generate (creditTransaction)
NoLoc == [op |-> "none", amt |-> 0, bal |-> 0, used |-> 0, nb |-> 0, date |-> 0,
          ctx |-> "api", res |-> "none", ev |-> NoEvent, tier |-> "free",
          st |-> "none", sid |-> 0, tx |-> 0]

\* history of the operation a handler runs: the balance its UPDATE wrote
\* (-1: none yet), whether that changed the column, whether no other
\* operation has started since this one did, whether it continues `last`
NoGh == [wrote |-> -1, chg |-> FALSE, solo |-> FALSE, chain |-> FALSE]

\* the ledger rows of k earlier design generations of a new account
RECURSIVE PastUsage(_)
PastUsage(k) ==
    IF k = 0 THEN <<>>
    ELSE Append(PastUsage(k - 1),
                [type |-> "usage", amount |-> -GenerateCost,
                 balanceAfter |-> InitialCreditsBalance - k * GenerateCost])

\* requireAuth creates the account with tier free, 3 credits, status
\* inactive; monthly_reset_date defaults to the time of creation
NewUser(k) ==
    [creditsBalance |-> InitialCreditsBalance - k * GenerateCost,
     creditsUsedThisMonth |-> k * GenerateCost,
     tier |-> "free", subscriptionStatus |-> "inactive",
     stripeCustomerId |-> NULL, stripeSubscriptionId |-> NULL,
     currentPeriodEnd |-> NullDate, monthlyResetDate |-> Instants[1]]

\* the account after checkout.session.completed activated a subscription
Subscribed(u, tier) ==
    [u EXCEPT !.tier = tier, !.subscriptionStatus = "active",
              !.stripeCustomerId = "cus_1", !.stripeSubscriptionId = "sub_1"]

\* the account state a webhook event decides
Account(u) ==
    [tier |-> u.tier, subscriptionStatus |-> u.subscriptionStatus,
     creditsBalance |-> u.creditsBalance, stripeCustomerId |-> u.stripeCustomerId,
     stripeSubscriptionId |-> u.stripeSubscriptionId,
     currentPeriodEnd |-> u.currentPeriodEnd]

\* history: nothing completed, or something else has started since.  Of a
\* debit: its amount, the balance before it and the ledger's length after it.
\* Of a webhook delivery: the event, the response and the account it left;
\* when it was a repeat of the delivery before it (rep), also that delivery's
\* response and account (pout, pacct)
NoLast == [op |-> "none", ev |-> NoEvent, amt |-> 0, out |-> "none", bal |-> 0, len |-> 0,
           acct |-> Account(NewUser(0)), rep |-> FALSE, pout |-> "none",
           pacct |-> Account(NewUser(0))]

\* the start of a run: a new account after k = 0..3 generations, on the free
\* tier, or subscribed to basic after all of them
\* nothing is running: no request, call or delivery has started
Quiet ==
    /\ subs = <<>>
    /\ now = 1
    /\ pc = [p \in Procs |-> "idle"]
    /\ loc = [p \in Procs |-> NoLoc]
    /\ gh = [p \in Procs |-> NoGh]
    /\ last = NoLast
    /\ started = 0
    /\ faults = 0

Init ==
    \E k \in 0..InitialCreditsBalance, paid \in BOOLEAN :
        /\ paid => k = InitialCreditsBalance
        /\ user = IF paid THEN Subscribed(NewUser(k), "basic") ELSE NewUser(k)
        /\ ledger = PastUsage(k)
        /\ user0 = [creditsBalance |-> InitialCreditsBalance - k * GenerateCost, rows |-> k]
        /\ created = <<NewUser(0)>>
        /\ Quiet

\* a free-tier account, after 0..3 generations, whose last reset was a day
\* before the run starts, 30 days and 12 hours before its second instant:
\* the rollover comes due as time passes
InitDue ==
    \E k \in 0..InitialCreditsBalance :
        /\ user = [NewUser(k) EXCEPT
                      !.monthlyResetDate = Instants[2] - ResetPeriodDays * DayUnits - 1]
        /\ ledger = PastUsage(k)
        /\ user0 = [creditsBalance |-> InitialCreditsBalance - k * GenerateCost, rows |-> k]
        /\ created = <<NewUser(0)>>
        /\ Quiet

\* no row of users: the identity has not made a request yet
NoUser ==
    [creditsBalance |-> 0, creditsUsedThisMonth |-> 0, tier |-> NULL,
     subscriptionStatus |-> NULL, stripeCustomerId |-> NULL,
     stripeSubscriptionId |-> NULL, currentPeriodEnd |-> NullDate,
     monthlyResetDate |-> NullDate]

\* the state before the first request of the identity
InitAuth ==
    /\ user = NoUser
    /\ ledger = <<>>
    /\ user0 = [creditsBalance |-> InitialCreditsBalance, rows |-> 0]
    /\ created = <<>>
    /\ Quiet

(* --------------------------- call and return -------------------------- *)
OthersIdle(p) == \A q \in Procs \ {p} : pc[q] = "idle"

\* a handler is free to start an operation
CanStart(p) == pc[p] = "idle" /\ started < MaxOps

\* history when p starts an operation
GhStart(p, chain) ==
    [r \in Procs |-> IF r = p THEN [NoGh EXCEPT !.solo = OthersIdle(p), !.chain = chain]
                              ELSE [gh[r] EXCEPT !.solo = FALSE, !.chain = FALSE]]

\* a route that goes on to the generation whatever deductCredits did
ReturnToGenerateAnyway(ctx, op, out) ==
    IF ctx = "route" /\ out = "ok" /\ op \in {"check", "reset"} THEN "require_credits"
    ELSE IF ctx = "route" /\ op = "deduct" THEN "generate"
    ELSE "idle"

\* where a handler continues when the service function op returns (out =
\* "ok") or throws (any other out).  Called on the service: the call is over.
\* Called by POST /generate: requireAuth goes on to requireCredits after
\* checkAndResetMonthlyCredits and answers 500 when it throws; the route
\* goes on to the generation after deductCredits and answers when it throws,
\* and answers after refundCredits
ReturnTo(ctx, op, out) ==
    IF ctx = "route" /\ out = "ok" /\ op \in {"check", "reset"} THEN "require_credits"
    ELSE IF ctx = "route" /\ out = "ok" /\ op = "deduct" THEN "generate"
    ELSE "idle"

\* the result a handler is left with when the call ends it: on the service
\* the outcome of the call, in POST /generate the response
ResultOf(ctx, op, out) ==
    IF ctx = "api" THEN out
    ELSE IF op \in {"check", "reset"} THEN "500_authentication_failed"
    ELSE IF op = "deduct" THEN "403_insufficient_credits"
    ELSE IF out = "ok" THEN "500_generation_failed"
    ELSE "500_internal"

\* the locals after the return
RetLoc(p, ctx, op, out, a, bal) ==
    IF ReturnTo(ctx, op, out) = "idle"
    THEN IF ctx = "api" /\ out = "insufficient"
         THEN [NoLoc EXCEPT !.res = out, !.amt = a, !.bal = bal]
         ELSE [NoLoc EXCEPT !.res = ResultOf(ctx, op, out)]
    ELSE [NoLoc EXCEPT !.ctx = ctx, !.tier = loc[p].tier,
                       !.tx = IF op = "deduct" THEN Len(ledger) + 1 ELSE 0]

\* the history after the return
RetGh(g, p, ctx, op, out) ==
    IF ReturnTo(ctx, op, out) = "idle" THEN [g EXCEPT ![p] = NoGh]
    ELSE [g EXCEPT ![p] = [NoGh EXCEPT !.solo = g[p].solo]]

\* a debit that ran from its read to its return with no other operation
\* started is remembered (its amount, the balance and the ledger's length
\* before it), for a refund that follows it; so is that refund when it is done
RetLast(g, p, op, out, a, bal) ==
    IF op = "deduct" /\ out = "ok" /\ g[p].solo
    THEN [NoLast EXCEPT !.op = "deduct", !.amt = a, !.bal = bal, !.len = Len(ledger)]
    ELSE IF op = "refund" /\ out = "ok" /\ g[p].chain
    THEN [last EXCEPT !.op = "deduct_refund"]
    ELSE NoLast

\* the function returns, or throws, to its caller
Return(p, g, ctx, op, out, a, bal) ==
    /\ pc' = [pc EXCEPT ![p] = ReturnTo(ctx, op, out)]
    /\ loc' = [loc EXCEPT ![p] = RetLoc(p, ctx, op, out, a, bal)]
    /\ gh' = RetGh(g, p, ctx, op, out)
    /\ last' = RetLast(g, p, op, out, a, bal)

\* storage.createCreditTransaction: INSERT INTO credit_transactions
createCreditTransaction(type, a, balanceAfter) ==
    ledger' = Append(ledger, [type |-> type, amount |-> a, balanceAfter |-> balanceAfter])

(* ---------------------------- deductCredits --------------------------- *)
\* the check with the amount left out
InsufficientCreditsNoAmount(currentBalance, amount) == currentBalance < 1

\* the check off by one
InsufficientCreditsOffByOne(currentBalance, amount) == currentBalance < amount - 1

\* the check of the balance read by the SELECT
InsufficientCredits(currentBalance, amount) == currentBalance < amount

\* SELECT ... FOR UPDATE, the balance check, and the new balance
deductCreditsSelect(p, a, ctx, g) ==
    /\ IF InsufficientCredits(user.creditsBalance, a)
       THEN Return(p, g, ctx, "deduct", "insufficient", a, user.creditsBalance)
       ELSE /\ pc' = [pc EXCEPT ![p] = "deduct_update"]
            /\ loc' = [loc EXCEPT ![p] = [NoLoc EXCEPT !.op = "deduct", !.amt = a, !.ctx = ctx,
                                            !.tier = loc[p].tier,
                                            !.bal = user.creditsBalance,
                                            !.used = user.creditsUsedThisMonth,
                                            !.nb = user.creditsBalance - a]]
            /\ gh' = g
            /\ last' = NoLast
    /\ UNCHANGED <<user, ledger, subs, now, faults, user0, created>>

\* deductCredits(userId, amount) called on the service
deductCredits(p, a) ==
    /\ CanStart(p)
    /\ started' = started + 1
    /\ deductCreditsSelect(p, a, "api", GhStart(p, FALSE))

deductCreditsCall(p) == \E a \in Amounts : deductCredits(p, a)

\* UPDATE users SET credits_balance = newBalance, credits_used_this_month = used + amount
deductCreditsUpdate(p) ==
    /\ pc[p] = "deduct_update"
    /\ user' = [user EXCEPT !.creditsBalance = loc[p].nb,
                            !.creditsUsedThisMonth = loc[p].used + loc[p].amt]
    /\ pc' = [pc EXCEPT ![p] = "deduct_insert"]
    /\ gh' = [gh EXCEPT ![p].wrote = user'.creditsBalance,
                        ![p].chg = (user'.creditsBalance # user.creditsBalance)]
    /\ UNCHANGED <<ledger, subs, now, loc, last, started, faults, user0, created>>

\* the usage row written with the balance read instead of the new balance
deductCreditsInsertOldBalance(p) ==
    /\ pc[p] = "deduct_insert"
    /\ createCreditTransaction("usage", -loc[p].amt, loc[p].bal)
    /\ Return(p, gh, loc[p].ctx, "deduct", "ok", loc[p].amt, loc[p].bal)
    /\ UNCHANGED <<user, subs, now, started, faults, user0, created>>

\* the usage row, then the function returns the row
deductCreditsInsert(p) ==
    /\ pc[p] = "deduct_insert"
    /\ createCreditTransaction("usage", -loc[p].amt, loc[p].nb)
    /\ Return(p, gh, loc[p].ctx, "deduct", "ok", loc[p].amt, loc[p].bal)
    /\ UNCHANGED <<user, subs, now, started, faults, user0, created>>

(* ---------------------------- refundCredits --------------------------- *)
\* a floor that does not hold
MaxSecond(a, b) == b

Max(a, b) == IF a >= b THEN a ELSE b

\* the refund follows a remembered debit of the same amount directly
Follows(p, a, g) == last.op = "deduct" /\ last.amt = a /\ g[p].solo

\* SELECT ... FOR UPDATE and the new balance
refundCreditsSelect(p, a, ctx, g) ==
    /\ pc' = [pc EXCEPT ![p] = "refund_update"]
    /\ loc' = [loc EXCEPT ![p] = [NoLoc EXCEPT !.op = "refund", !.amt = a, !.ctx = ctx,
                                    !.tier = loc[p].tier, !.tx = loc[p].tx,
                                    !.bal = user.creditsBalance,
                                    !.used = user.creditsUsedThisMonth,
                                    !.nb = user.creditsBalance + a]]
    /\ gh' = [g EXCEPT ![p].chain = Follows(p, a, g)]
    /\ last' = IF Follows(p, a, g) THEN last ELSE NoLast
    /\ UNCHANGED <<user, ledger, subs, now, faults, user0, created>>

\* refundCredits(userId, designId, amount) called on the service
refundCreditsCall(p) ==
    /\ CanStart(p)
    /\ started' = started + 1
    /\ \E a \in Amounts : refundCreditsSelect(p, a, "api", GhStart(p, FALSE))

\* UPDATE users SET credits_balance = newBalance,
\*                  credits_used_this_month = Math.max(0, used - amount)
refundCreditsUpdate(p) ==
    /\ pc[p] = "refund_update"
    /\ user' = [user EXCEPT !.creditsBalance = loc[p].nb,
                            !.creditsUsedThisMonth = Max(0, loc[p].used - loc[p].amt)]
    /\ pc' = [pc EXCEPT ![p] = "refund_insert"]
    /\ gh' = [gh EXCEPT ![p].wrote = user'.creditsBalance,
                        ![p].chg = (user'.creditsBalance # user.creditsBalance)]
    /\ UNCHANGED <<ledger, subs, now, loc, last, started, faults, user0, created>>

\* the refund row written with the amount negated
refundCreditsInsertNegated(p) ==
    /\ pc[p] = "refund_insert"
    /\ createCreditTransaction("refund", -loc[p].amt, loc[p].nb)
    /\ Return(p, gh, loc[p].ctx, "refund", "ok", loc[p].amt, loc[p].bal)
    /\ UNCHANGED <<user, subs, now, started, faults, user0, created>>

\* the refund row
refundCreditsInsert(p) ==
    /\ pc[p] = "refund_insert"
    /\ createCreditTransaction("refund", loc[p].amt, loc[p].nb)
    /\ Return(p, gh, loc[p].ctx, "refund", "ok", loc[p].amt, loc[p].bal)
    /\ UNCHANGED <<user, subs, now, started, faults, user0, created>>

(* ------------------------------ addCredits ---------------------------- *)
\* addCredits(userId, amount, ...): SELECT ... FOR UPDATE and the new balance
addCreditsCall(p) ==
    /\ CanStart(p)
    /\ started' = started + 1
    /\ \E a \in Amounts :
        /\ pc' = [pc EXCEPT ![p] = "add_update"]
        /\ loc' = [loc EXCEPT ![p] = [NoLoc EXCEPT !.op = "add", !.amt = a,
                                        !.bal = user.creditsBalance,
                                        !.nb = user.creditsBalance + a]]
    /\ gh' = GhStart(p, FALSE)
    /\ last' = NoLast
    /\ UNCHANGED <<user, ledger, subs, now, faults, user0, created>>

\* UPDATE users SET credits_balance = newBalance
addCreditsUpdate(p) ==
    /\ pc[p] = "add_update"
    /\ user' = [user EXCEPT !.creditsBalance = loc[p].nb]
    /\ pc' = [pc EXCEPT ![p] = "add_insert"]
    /\ gh' = [gh EXCEPT ![p].wrote = user'.creditsBalance,
                        ![p].chg = (user'.creditsBalance # user.creditsBalance)]
    /\ UNCHANGED <<ledger, subs, now, loc, last, started, faults, user0, created>>

\* the purchase row
addCreditsInsert(p) ==
    /\ pc[p] = "add_insert"
    /\ createCreditTransaction("purchase", loc[p].amt, loc[p].nb)
    /\ Return(p, gh, loc[p].ctx, "add", "ok", loc[p].amt, loc[p].bal)
    /\ UNCHANGED <<user, subs, now, started, faults, user0, created>>

(* ------------- resetMonthlyCredits, checkAndResetMonthlyCredits ------- *)
\* the reset without the tier check
resetMonthlyCreditsSelectAnyTier(p, ctx, g) ==
    /\ pc' = [pc EXCEPT ![p] = "reset_update"]
    /\ loc' = [loc EXCEPT ![p] = [NoLoc EXCEPT !.op = "reset", !.ctx = ctx,
                                    !.tier = loc[p].tier,
                                    !.nb = FREE_TIER_MONTHLY_CREDITS,
                                    !.date = Instants[now]]]
    /\ gh' = g
    /\ last' = NoLast
    /\ UNCHANGED <<user, ledger, subs, now, faults, user0, created>>

\* storage.getUserById, the tier check, and the values of the UPDATE
\* (monthlyResetDate: new Date() is evaluated when the statement is built)
resetMonthlyCreditsSelect(p, ctx, g) ==
    /\ IF user.tier # "free"
       THEN Return(p, g, ctx, "reset", "ok", 0, 0)
       ELSE /\ pc' = [pc EXCEPT ![p] = "reset_update"]
            /\ loc' = [loc EXCEPT ![p] = [NoLoc EXCEPT !.op = "reset", !.ctx = ctx,
                                            !.tier = loc[p].tier,
                                            !.nb = FREE_TIER_MONTHLY_CREDITS,
                                            !.date = Instants[now]]]
            /\ gh' = g
            /\ last' = NoLast
    /\ UNCHANGED <<user, ledger, subs, now, faults, user0, created>>

\* resetMonthlyCredits(userId) called on the service (the monthly job)
resetMonthlyCreditsCall(p) ==
    /\ CanStart(p)
    /\ started' = started + 1
    /\ resetMonthlyCreditsSelect(p, "api", GhStart(p, FALSE))

\* resetMonthlyCredits called by checkAndResetMonthlyCredits: its own read
resetMonthlyCreditsRead(p) ==
    /\ pc[p] = "reset_select"
    /\ resetMonthlyCreditsSelect(p, loc[p].ctx, gh)
    /\ UNCHANGED started

\* UPDATE users SET credits_balance = 3, credits_used_this_month = 0, monthly_reset_date
resetMonthlyCreditsUpdate(p) ==
    /\ pc[p] = "reset_update"
    /\ user' = [user EXCEPT !.creditsBalance = loc[p].nb,
                            !.creditsUsedThisMonth = 0,
                            !.monthlyResetDate = loc[p].date]
    /\ pc' = [pc EXCEPT ![p] = "reset_insert"]
    /\ gh' = [gh EXCEPT ![p].wrote = user'.creditsBalance,
                        ![p].chg = (user'.creditsBalance # user.creditsBalance)]
    /\ UNCHANGED <<ledger, subs, now, loc, last, started, faults, user0, created>>

\* the monthly_reset row
resetMonthlyCreditsInsert(p) ==
    /\ pc[p] = "reset_insert"
    /\ createCreditTransaction("monthly_reset", FREE_TIER_MONTHLY_CREDITS,
                               FREE_TIER_MONTHLY_CREDITS)
    /\ Return(p, gh, loc[p].ctx, "reset", "ok", 0, 0)
    /\ UNCHANGED <<user, subs, now, started, faults, user0, created>>

\* Math.ceil(|now - date| / one day)
daysSince(date) ==
    LET diffTime == IF Instants[now] >= date THEN Instants[now] - date
                    ELSE date - Instants[now]
    IN  (diffTime + DayUnits - 1) \div DayUnits

\* storage.getUserById and the decision to reset
checkAndResetMonthlyCreditsSelect(p, ctx, g) ==
    /\ IF user.tier # "free"
       THEN Return(p, g, ctx, "check", "ok", 0, 0)
       ELSE IF user.monthlyResetDate = NullDate
               \/ daysSince(user.monthlyResetDate) >= ResetPeriodDays
       THEN /\ pc' = [pc EXCEPT ![p] = "reset_select"]
            /\ loc' = [loc EXCEPT ![p] = [NoLoc EXCEPT !.op = "reset", !.ctx = ctx,
                                            !.tier = loc[p].tier]]
            /\ gh' = g
            /\ last' = NoLast
       ELSE Return(p, g, ctx, "check", "ok", 0, 0)
    /\ UNCHANGED <<user, ledger, subs, now, faults, user0, created>>

\* checkAndResetMonthlyCredits(userId) called on the service
checkAndResetMonthlyCreditsCall(p) ==
    /\ CanStart(p)
    /\ started' = started + 1
    /\ checkAndResetMonthlyCreditsSelect(p, "api", GhStart(p, FALSE))


(* ---------------------- POST /api/designs/generate -------------------- *)
\* what the request body and the style and room-type lookups come to before
\* the debit: the body fails validation, the style or the room type does not
\* exist, the style is a premium one, or none of these
Lookups == {"invalid", "no_style", "no_room_type", "premium_style", "free_style"}

\* requireAuth: the token is verified (401 when it is missing or invalid) and
\* storage.getUserByFirebaseUid reads the account; req.user.tier is the tier
\* this read returned
requireAuth(p) ==
    /\ CanStart(p)
    /\ started' = started + 1
    /\ \E token \in BOOLEAN :
        IF token /\ created = <<>>
        THEN /\ pc' = [pc EXCEPT ![p] = "auth_create"]
             /\ loc' = [loc EXCEPT ![p] = [NoLoc EXCEPT !.ctx = "route"]]
        ELSE IF token
        THEN /\ pc' = [pc EXCEPT ![p] = "check_select"]
             /\ loc' = [loc EXCEPT ![p] = [NoLoc EXCEPT !.ctx = "route", !.tier = user.tier]]
        ELSE /\ pc' = [pc EXCEPT ![p] = "idle"]
             /\ loc' = [loc EXCEPT ![p] = [NoLoc EXCEPT !.res = "401_unauthorized"]]
    /\ gh' = GhStart(p, FALSE)
    /\ last' = NoLast
    /\ UNCHANGED <<user, ledger, subs, now, faults, user0, created>>

\* an INSERT that the unique index never refuses
FirebaseUidTakenNever == FALSE

\* users.firebase_uid is unique: the INSERT of a second row is refused
FirebaseUidTaken == created # <<>>

\* requireAuth found no account: storage.createUser inserts one (the columns
\* it does not give take their defaults, monthly_reset_date the time of the
\* INSERT); when the INSERT is refused, requireAuth's catch answers 500
createUser(p) ==
    /\ pc[p] = "auth_create"
    /\ IF FirebaseUidTaken
       THEN /\ pc' = [pc EXCEPT ![p] = "idle"]
            /\ loc' = [loc EXCEPT ![p] = [NoLoc EXCEPT !.res = "500_authentication_failed"]]
            /\ gh' = [gh EXCEPT ![p] = NoGh]
            /\ UNCHANGED <<user, created>>
       ELSE /\ user' = [NewUser(0) EXCEPT !.monthlyResetDate = Instants[now]]
            /\ created' = Append(created, user')
            /\ pc' = [pc EXCEPT ![p] = "check_select"]
            /\ loc' = [loc EXCEPT ![p].tier = user'.tier]
            /\ UNCHANGED gh
    /\ last' = NoLast
    /\ UNCHANGED <<ledger, subs, now, started, faults, user0>>

\* requireAuth calls checkAndResetMonthlyCredits(user.id): its read
checkAndResetMonthlyCreditsRead(p) ==
    /\ pc[p] = "check_select"
    /\ checkAndResetMonthlyCreditsSelect(p, "route", gh)
    /\ UNCHANGED started

\* requireCredits(1): a tier other than free passes; on the free tier
\* getCreditBalance reads the balance and less than minCredits answers 403
requireCredits(p) ==
    /\ pc[p] = "require_credits"
    /\ IF loc[p].tier # "free" \/ user.creditsBalance >= GenerateCost
       THEN /\ pc' = [pc EXCEPT ![p] = "handler"]
            /\ UNCHANGED loc
       ELSE /\ pc' = [pc EXCEPT ![p] = "idle"]
            /\ loc' = [loc EXCEPT ![p] = [NoLoc EXCEPT !.res = "403_insufficient_precheck"]]
    /\ gh' = IF pc'[p] = "idle" THEN [gh EXCEPT ![p] = NoGh] ELSE gh
    /\ UNCHANGED <<user, ledger, subs, now, last, started, faults, user0, created>>

\* a handler that takes the credit before it looks at the request
handlerLookupsDebitFirst(p) ==
    /\ pc[p] = "handler"
    /\ user' = [user EXCEPT !.creditsBalance = @ - GenerateCost]
    /\ \E l \in Lookups :
        IF l = "free_style"
        THEN /\ pc' = [pc EXCEPT ![p] = "deduct_select"]
             /\ UNCHANGED <<loc, gh>>
        ELSE /\ pc' = [pc EXCEPT ![p] = "idle"]
             /\ loc' = [loc EXCEPT ![p] = [NoLoc EXCEPT !.res = "400_validation"]]
             /\ gh' = [gh EXCEPT ![p] = NoGh]
    /\ UNCHANGED <<ledger, subs, now, last, started, faults, user0, created>>

\* the handler up to the debit: validation, getDesignStyle, getRoomType and
\* the tier check of a premium style
handlerLookups(p) ==
    /\ pc[p] = "handler"
    /\ \E l \in Lookups :
        LET answer == IF l = "invalid" THEN "400_validation"
                      ELSE IF l = "no_style" THEN "404_style"
                      ELSE IF l = "no_room_type" THEN "404_room_type"
                      ELSE IF l = "premium_style" /\ loc[p].tier = "free"
                           THEN "403_premium_style"
                      ELSE "none"
        IN  IF answer = "none"
            THEN /\ pc' = [pc EXCEPT ![p] = "deduct_select"]
                 /\ UNCHANGED <<loc, gh>>
            ELSE /\ pc' = [pc EXCEPT ![p] = "idle"]
                 /\ loc' = [loc EXCEPT ![p] = [NoLoc EXCEPT !.res = answer]]
                 /\ gh' = [gh EXCEPT ![p] = NoGh]
    /\ UNCHANGED <<user, ledger, subs, now, last, started, faults, user0, created>>

\* deductCredits(userId, 1, ...) called by the handler: its read.  Whatever
\* it throws is answered 403 "Insufficient Credits"
deductCreditsRead(p) ==
    /\ pc[p] = "deduct_select"
    /\ deductCreditsSelect(p, GenerateCost, "route", gh)
    /\ UNCHANGED started

\* generateRoomDesign and storage.createDesign succeed: 201
generateOk(p) ==
    /\ pc[p] = "generate"
    /\ pc' = [pc EXCEPT ![p] = "idle"]
    /\ loc' = [loc EXCEPT ![p] = [NoLoc EXCEPT !.res = "201_created"]]
    /\ gh' = [gh EXCEPT ![p] = NoGh]
    /\ UNCHANGED <<user, ledger, subs, now, last, started, faults, user0, created>>

\* the catch block answering without the refund
generateFailNoRefund(p) ==
    /\ pc[p] = "generate"
    /\ pc' = [pc EXCEPT ![p] = "idle"]
    /\ loc' = [loc EXCEPT ![p] = [NoLoc EXCEPT !.res = "500_generation_failed"]]
    /\ gh' = [gh EXCEPT ![p] = NoGh]
    /\ UNCHANGED <<user, ledger, subs, now, last, started, faults, user0, created>>

\* generateRoomDesign or storage.createDesign throws: the catch block runs
generateFail(p) ==
    /\ pc[p] = "generate"
    /\ pc' = [pc EXCEPT ![p] = "refund_select"]
    /\ UNCHANGED <<user, ledger, subs, now, loc, gh, last, started, faults, user0, created>>

\* the catch block calls refundCredits(userId, designId, 1, ...): its read.
\* When it returns the request answers 500 "Design Generation Failed"
refundCreditsRead(p) ==
    /\ pc[p] = "refund_select"
    /\ refundCreditsSelect(p, GenerateCost, "route", gh)
    /\ UNCHANGED started

(* --------------------------- Stripe webhooks -------------------------- *)
\* the events Stripe delivers about the account's subscription sub_1 of
\* customer cus_1 (cus_2: a customer no account has), and one of a type the
\* switch does not handle.  periodEnd is current_period_end as an instant
SubscriptionEvent(type, tier, status, cancel) ==
    [type |-> type, tier |-> tier, status |-> status, periodEnd |-> 60,
     cancelAtPeriodEnd |-> cancel, sub |-> "sub_1", cust |-> "cus_1"]

DeletedEvent == SubscriptionEvent("customer.subscription.deleted", "basic", "canceled", FALSE)

UnhandledEvent == SubscriptionEvent("customer.created", "basic", "active", FALSE)

Events ==
    {SubscriptionEvent("checkout.session.completed", t, "active", FALSE) : t \in PaidTiers}
    \cup {SubscriptionEvent("customer.subscription.created", t, "active", FALSE) : t \in PaidTiers}
    \cup {SubscriptionEvent("customer.subscription.updated", "basic", s, FALSE) :
            s \in {"active", "past_due", "canceled", "unpaid"}}
    \cup {SubscriptionEvent("customer.subscription.updated", "basic", "active", TRUE)}
    \cup {DeletedEvent}
    \cup {SubscriptionEvent("invoice.payment_succeeded", "basic", "active", FALSE)}
    \cup {[SubscriptionEvent("invoice.payment_failed", "basic", "past_due", FALSE)
             EXCEPT !.cust = c] : c \in {"cus_1", "cus_2"}}
    \cup {UnhandledEvent}

\* the stripe-signature header of a delivery: absent, one that does not
\* verify against the body and the webhook secret, or one that does
Signatures == {"none", "bad", "good"}

\* a verification that lets every signature through
constructWebhookEventUnverified(signature) == TRUE

\* stripe.webhooks.constructEvent returns the event, or throws
constructWebhookEvent(signature) == signature = "good"

\* the delivery repeats the delivery that completed last, undisturbed
Replays(p, e) == last.op = "hook" /\ last.ev = e /\ OthersIdle(p)

\* handleStripeWebhook answers: 200 {received: true}, or 500 from its catch
HookReturn(p, e, u, out, solo, chain) ==
    /\ pc' = [pc EXCEPT ![p] = "idle"]
    /\ loc' = [loc EXCEPT ![p] = [NoLoc EXCEPT !.res = out]]
    /\ last' = IF solo
               THEN [NoLast EXCEPT !.op = "hook", !.ev = e, !.out = out,
                                   !.acct = Account(u), !.rep = chain,
                                   !.pout = IF chain THEN last.out ELSE "none",
                                   !.pacct = IF chain THEN last.acct ELSE NoLast.acct]
               ELSE NoLast

\* the handler goes on to its next statement
HookAwait(p, e, label, tier, st) ==
    /\ pc' = [pc EXCEPT ![p] = label]
    /\ loc' = [loc EXCEPT ![p] = [NoLoc EXCEPT !.op = "hook", !.ev = e, !.tier = tier,
                                    !.st = st]]
    /\ last' = IF Replays(p, e) THEN last ELSE NoLast

\* handleSubscriptionUpdated: the status and the tier it writes
NewStatus(e) ==
    IF e.status \in {"canceled", "unpaid"} THEN "cancelled"
    ELSE IF e.status = "past_due" THEN "past_due"
    ELSE "active"

NewTier(e, tier) == IF e.status \in {"canceled", "unpaid"} THEN "free" ELSE tier

\* the downgrade without the balance reset
SubscriptionDeletedUserKeepBalance(u) ==
    [u EXCEPT !.tier = "free", !.subscriptionStatus = "cancelled",
              !.stripeSubscriptionId = NULL, !.currentPeriodEnd = NullDate]

\* handleSubscriptionDeleted: UPDATE users SET tier = free, status = cancelled,
\* credits_balance = 3, stripe_subscription_id = null, current_period_end = null
SubscriptionDeletedUser(u) ==
    [u EXCEPT !.tier = "free", !.subscriptionStatus = "cancelled",
              !.creditsBalance = DeletedCreditsBalance,
              !.stripeSubscriptionId = NULL, !.currentPeriodEnd = NullDate]

\* storage.createSubscription: INSERT INTO subscriptions; stripe_subscription_id
\* is unique
SubscriptionExists(sub) == \E i \in 1..Len(subs) : subs[i].stripeSubscriptionId = sub

SubscriptionRow(e) ==
    [stripeSubscriptionId |-> e.sub, tier |-> e.tier, status |-> e.status,
     currentPeriodEnd |-> e.periodEnd, cancelAtPeriodEnd |-> e.cancelAtPeriodEnd]

\* an answer of 500 where the handler had nothing to do
AcknowledgeFailed(p, e, solo, chain, g) ==
    /\ HookReturn(p, e, user, "500", solo, chain)
    /\ gh' = [g EXCEPT ![p] = NoGh]
    /\ UNCHANGED <<user, subs>>

\* the switch's default, and the handlers that return without a statement
\* that writes: res.json({received: true})
Acknowledge(p, e, solo, chain, g) ==
    /\ HookReturn(p, e, user, "200", solo, chain)
    /\ gh' = [g EXCEPT ![p] = NoGh]
    /\ UNCHANGED <<user, subs>>

\* handleStripeWebhook: the signature check, the switch on event.type, and
\* the handler up to the result of its first statement
Deliver(p, e, signature) ==
    /\ CanStart(p)
    /\ started' = started + 1
    /\ LET solo == OthersIdle(p)
           chain == Replays(p, e)
           g == GhStart(p, chain)
       IN
       IF signature = "none" \/ ~constructWebhookEvent(signature)
       THEN /\ HookReturn(p, e, user, "400", FALSE, FALSE)
            /\ gh' = [g EXCEPT ![p] = NoGh]
            /\ UNCHANGED <<user, subs>>
       ELSE IF e.type = "checkout.session.completed"
       THEN \* storage.getUserById: the account exists
            /\ HookAwait(p, e, "checkout_update", "free", "none")
            /\ gh' = g
            /\ UNCHANGED <<user, subs>>
       ELSE IF e.type = "customer.subscription.created"
       THEN /\ IF SubscriptionExists(e.sub)
               THEN /\ HookReturn(p, e, user, "500", solo, chain)
                    /\ UNCHANGED subs
               ELSE /\ HookReturn(p, e, user, "200", solo, chain)
                    /\ subs' = Append(subs, SubscriptionRow(e))
            /\ gh' = [g EXCEPT ![p] = NoGh]
            /\ UNCHANGED user
       ELSE IF e.type = "customer.subscription.updated"
       THEN \* storage.getUserById: newTier starts as the tier read
            /\ HookAwait(p, e, "updated_update", NewTier(e, user.tier), NewStatus(e))
            /\ gh' = g
            /\ UNCHANGED <<user, subs>>
       ELSE IF e.type = "customer.subscription.deleted"
       THEN /\ user' = SubscriptionDeletedUser(user)
            /\ HookAwait(p, e, "hook_getsub", "free", "none")
            /\ gh' = [g EXCEPT ![p].wrote = user'.creditsBalance,
                               ![p].chg = (user'.creditsBalance # user.creditsBalance)]
            /\ UNCHANGED subs
       ELSE IF e.type = "invoice.payment_failed" /\ user.stripeCustomerId = e.cust
       THEN \* SELECT ... WHERE stripe_customer_id = customerId found the account
            /\ HookAwait(p, e, "failed_update", "free", "none")
            /\ gh' = g
            /\ UNCHANGED <<user, subs>>
       ELSE \* invoice.payment_succeeded, no account of the customer, or default
            Acknowledge(p, e, solo, chain, g)
    /\ UNCHANGED <<ledger, now, faults, user0, created>>

\* POST /api/webhooks/stripe
handleStripeWebhook(p) == \E e \in Events, signature \in Signatures : Deliver(p, e, signature)

\* a verified customer.subscription.deleted event is delivered
handleSubscriptionDeleted(p) == Deliver(p, DeletedEvent, "good")

\* handleCheckoutSessionCompleted: UPDATE users SET tier, subscription_status,
\* stripe_customer_id, stripe_subscription_id
handleCheckoutSessionCompleted(p) ==
    /\ pc[p] = "checkout_update"
    /\ user' = [user EXCEPT !.tier = loc[p].ev.tier, !.subscriptionStatus = "active",
                            !.stripeCustomerId = loc[p].ev.cust,
                            !.stripeSubscriptionId = loc[p].ev.sub]
    /\ HookReturn(p, loc[p].ev, user', "200", gh[p].solo, gh[p].chain)
    /\ gh' = [gh EXCEPT ![p] = NoGh]
    /\ UNCHANGED <<ledger, subs, now, started, faults, user0, created>>

\* handleSubscriptionUpdated: UPDATE users SET tier, subscription_status,
\* current_period_end
handleSubscriptionUpdated(p) ==
    /\ pc[p] = "updated_update"
    /\ user' = [user EXCEPT !.tier = loc[p].tier, !.subscriptionStatus = loc[p].st,
                            !.currentPeriodEnd = loc[p].ev.periodEnd]
    /\ pc' = [pc EXCEPT ![p] = "hook_getsub"]
    /\ UNCHANGED <<ledger, subs, now, loc, gh, last, started, faults, user0, created>>

\* a failed payment that also takes the plan away
handleInvoicePaymentFailedDowngrades(p) ==
    /\ pc[p] = "failed_update"
    /\ user' = [user EXCEPT !.subscriptionStatus = "past_due", !.tier = "free"]
    /\ HookReturn(p, loc[p].ev, user', "200", gh[p].solo, gh[p].chain)
    /\ gh' = [gh EXCEPT ![p] = NoGh]
    /\ UNCHANGED <<ledger, subs, now, started, faults, user0, created>>

\* handleInvoicePaymentFailed: UPDATE users SET subscription_status = past_due
handleInvoicePaymentFailed(p) ==
    /\ pc[p] = "failed_update"
    /\ user' = [user EXCEPT !.subscriptionStatus = "past_due"]
    /\ HookReturn(p, loc[p].ev, user', "200", gh[p].solo, gh[p].chain)
    /\ gh' = [gh EXCEPT ![p] = NoGh]
    /\ UNCHANGED <<ledger, subs, now, started, faults, user0, created>>

\* storage.getSubscriptionByUserId: the account's newest subscription record
getSubscriptionByUserId(p) ==
    /\ pc[p] = "hook_getsub"
    /\ IF subs # <<>>
       THEN /\ pc' = [pc EXCEPT ![p] = "hook_updsub"]
            /\ loc' = [loc EXCEPT ![p].sid = Len(subs)]
            /\ UNCHANGED <<gh, last>>
       ELSE /\ HookReturn(p, loc[p].ev, user, "200", gh[p].solo, gh[p].chain)
            /\ gh' = [gh EXCEPT ![p] = NoGh]
    /\ UNCHANGED <<user, ledger, subs, now, started, faults, user0, created>>

\* storage.updateSubscription: status "canceled" (deleted), or the event's
\* status, period end and cancel_at_period_end (updated)
updateSubscription(p) ==
    /\ pc[p] = "hook_updsub"
    /\ LET e == loc[p].ev
       IN  subs' = [subs EXCEPT ![loc[p].sid] =
                      IF e.type = "customer.subscription.deleted"
                      THEN [@ EXCEPT !.status = "canceled"]
                      ELSE [@ EXCEPT !.status = e.status,
                                     !.currentPeriodEnd = e.periodEnd,
                                     !.cancelAtPeriodEnd = e.cancelAtPeriodEnd]]
    /\ HookReturn(p, loc[p].ev, user, "200", gh[p].solo, gh[p].chain)
    /\ gh' = [gh EXCEPT ![p] = NoGh]
    /\ UNCHANGED <<user, ledger, now, started, faults, user0, created>>
(* ------------------------- environment: faults, time ------------------ *)
\* the statements a handler may be waiting for: those of the credit service
\* (on the service its first SELECT is part of the call), those of POST
\* /generate up to the debit and after a failed generation, and those of the
\* webhook handlers
ServiceStatements == {"deduct_update", "deduct_insert", "refund_update", "refund_insert",
                      "add_update", "add_insert", "reset_select", "reset_update",
                      "reset_insert"}

RouteStatements == {"auth_create", "check_select", "require_credits", "handler",
                    "deduct_select", "refund_select"}

HookStatements == {"checkout_update", "updated_update", "failed_update", "hook_getsub",
                   "hook_updsub"}

PendingStatement == ServiceStatements \cup RouteStatements \cup HookStatements

\* the service function whose statement a handler is waiting for
PendingOp(p) ==
    IF pc[p] = "deduct_select" THEN "deduct"
    ELSE IF pc[p] = "refund_select" THEN "refund"
    ELSE IF pc[p] = "check_select" THEN "check"
    ELSE loc[p].op

\* the database rejects the pending statement (pool timeout, connection
\* loss): the awaiting function throws and the statement writes nothing.
\* A webhook handler's throw is answered 500 'Webhook processing failed';
\* storage.createUser's by requireAuth's catch, getCreditBalance's by
\* requireCredits' catch (a paid tier awaits nothing there), getDesignStyle's
\* and getRoomType's by the handler's outer catch; a service function's
\* throw goes to its caller
dbReject(p) ==
    /\ pc[p] \in PendingStatement
    /\ pc[p] = "require_credits" => loc[p].tier = "free"
    /\ faults < MaxFaults
    /\ faults' = faults + 1
    /\ IF pc[p] \in HookStatements
       THEN /\ HookReturn(p, loc[p].ev, user, "500", gh[p].solo, gh[p].chain)
            /\ gh' = [gh EXCEPT ![p] = NoGh]
       ELSE IF pc[p] \in {"auth_create", "require_credits", "handler"}
       THEN /\ pc' = [pc EXCEPT ![p] = "idle"]
            /\ loc' = [loc EXCEPT ![p] =
                         [NoLoc EXCEPT !.res =
                            IF pc[p] = "auth_create" THEN "500_authentication_failed"
                            ELSE IF pc[p] = "require_credits"
                                 THEN "500_credit_check_failed"
                            ELSE "500_internal"]]
            /\ gh' = [gh EXCEPT ![p] = NoGh]
            /\ last' = IF pc[p] = "auth_create" THEN NoLast ELSE last
       ELSE Return(p, gh, loc[p].ctx, PendingOp(p), "error", loc[p].amt, loc[p].bal)
    /\ UNCHANGED <<user, ledger, subs, now, started, user0, created>>

\* the database rejects the first statement of a call on the service (the
\* call throws), of a request (requireAuth's getUserByFirebaseUid: 500
\* 'Authentication failed') or of the handler of a verified event (500
\* 'Webhook processing failed'): nothing is written
dbRejectCall(p, ctx, e) ==
    /\ CanStart(p)
    /\ started' = started + 1
    /\ faults < MaxFaults
    /\ faults' = faults + 1
    /\ IF ctx = "hook"
       THEN /\ HookReturn(p, e, user, "500", OthersIdle(p), Replays(p, e))
            /\ gh' = [GhStart(p, Replays(p, e)) EXCEPT ![p] = NoGh]
       ELSE /\ pc' = [pc EXCEPT ![p] = "idle"]
            /\ loc' = [loc EXCEPT ![p] =
                         [NoLoc EXCEPT !.res = IF ctx = "route"
                                               THEN "500_authentication_failed"
                                               ELSE "error"]]
            /\ gh' = [GhStart(p, FALSE) EXCEPT ![p] = NoGh]
            /\ last' = NoLast
    /\ UNCHANGED <<user, ledger, subs, now, user0, created>>

\* time passes
Tick ==
    /\ now < Len(Instants)
    /\ now' = now + 1
    /\ UNCHANGED <<user, ledger, subs, pc, loc, gh, last, started, faults, user0, created>>


(* ------------------------------- claims ------------------------------- *)
AllIdle == \A p \in Procs : pc[p] = "idle"

\* the amounts of the usage rows from row n back to the start of the run:
\* what the deductCredits calls that succeeded have debited
RECURSIVE Debited(_)
Debited(n) == IF n <= user0.rows THEN 0 ELSE Debited(n - 1) - ledger[n].amount

\* C1: under concurrent deductCredits calls alone, once all calls have
\* finished the balance is the initial balance minus the sum of the amounts
\* of the calls that succeeded
C1_ConcurrentDebitsSum ==
    AllIdle => user.creditsBalance = user0.creditsBalance - Debited(Len(ledger))

\* C2: creditsBalance is never negative
C2_BalanceNonNegative == user.creditsBalance >= 0

\* C2 witness: a debit has taken the balance to exactly zero
C2_DebitedToZero ==
    /\ user.creditsBalance = 0
    /\ Len(ledger) > user0.rows
    /\ ledger[Len(ledger)].type = "usage"
    /\ ledger[Len(ledger)].balanceAfter = 0

\* C3: deductCredits(amount) called with creditsBalance < amount throws the
\* insufficient-credits error and leaves the account row and the ledger as
\* they were
C3_InsufficientCreditsRejected ==
    [][\A p \in Procs, a \in Amounts :
         (deductCredits(p, a) /\ user.creditsBalance < a)
            => /\ pc'[p] = "idle"
               /\ loc'[p].res = "insufficient"
               /\ user'.creditsBalance = user.creditsBalance
               /\ user'.creditsUsedThisMonth = user.creditsUsedThisMonth
               /\ ledger' = ledger]_vars

\* C3 witness: a call was refused on balance 0 and amount 1, or on a lower
\* balance than a larger amount, and the balance is what it read
C3_Refused ==
    \E p \in Procs :
        /\ pc[p] = "idle"
        /\ loc[p].res = "insufficient"
        /\ loc[p].bal < loc[p].amt
        /\ loc[p].bal = user.creditsBalance

\* C4: a successful deductCredits(a) followed by refundCredits(a), nothing
\* else started in between, restores the balance and leaves exactly two new
\* rows: usage -a with balanceAfter old - a, refund +a with balanceAfter old
C4_DebitThenRefund ==
    last.op = "deduct_refund" =>
        /\ user.creditsBalance = last.bal
        /\ Len(ledger) = last.len + 2
        /\ ledger[last.len + 1] = [type |-> "usage", amount |-> -last.amt,
                                   balanceAfter |-> last.bal - last.amt]
        /\ ledger[last.len + 2] = [type |-> "refund", amount |-> last.amt,
                                   balanceAfter |-> last.bal]
        /\ ledger[last.len + 1].amount + ledger[last.len + 2].amount = 0

\* C4 witness: such a debit and refund have completed
C4_Refunded == last.op = "deduct_refund" /\ last.amt \in Amounts

\* C5: an operation that changed creditsBalance ends by appending its one
\* ledger row
C5_ChangeHasLedgerRow ==
    [][\A p \in Procs :
         (pc[p] # "idle" /\ pc'[p] = "idle" /\ gh[p].chg)
            => /\ Len(ledger') = Len(ledger) + 1
               /\ ledger'[Len(ledger')].balanceAfter = gh[p].wrote]_vars

\* C6: a row is appended with balanceAfter equal to the balance its own
\* operation's UPDATE left, and rows already there are never changed or removed
C6_BalanceAfterIsBalanceWritten ==
    [][/\ Len(ledger') >= Len(ledger)
       /\ SubSeq(ledger', 1, Len(ledger)) = ledger
       /\ Len(ledger') > Len(ledger) =>
            /\ Len(ledger') = Len(ledger) + 1
            /\ \E p \in Procs :
                /\ pc'[p] # pc[p]
                /\ gh[p].wrote = ledger'[Len(ledger')].balanceAfter]_vars

\* C6 witness: a row stands in the ledger whose balanceAfter is no longer the
\* balance, a concurrent operation having written the balance since
C6_RowOvertaken ==
    /\ AllIdle
    /\ Len(ledger) > user0.rows
    /\ ledger[Len(ledger)].balanceAfter # user.creditsBalance
    /\ faults = 0

\* C7: a debit that has written the balance ends only by inserting its
\* usage row
C7_DebitNotPartial ==
    [][\A p \in Procs :
         (pc[p] = "deduct_insert" /\ pc'[p] # "deduct_insert")
            => ledger' = Append(ledger, [type |-> "usage", amount |-> -loc[p].amt,
                                         balanceAfter |-> loc[p].nb])]_vars

\* C8: when the generation of a request fails after its debit, the request
\* goes on to refundCredits of the same amount, once, the usage row stays
\* where it is, and the refund row is appended after it; and a request whose
\* generation has failed does come to answer that the credit was refunded
C8_RefundAfterFailedGeneration ==
    /\ [][\A p \in Procs :
            /\ (pc[p] = "generate" /\ pc'[p] # "generate" /\ loc'[p].res # "201_created")
                  => (pc'[p] = "refund_select" /\ ledger' = ledger)
            /\ (pc[p] = "refund_select" /\ pc'[p] # "refund_select")
                  => /\ pc'[p] = "refund_update"
                     /\ loc'[p].op = "refund"
                     /\ loc'[p].amt = GenerateCost
                     /\ loc'[p].tx = loc[p].tx
            /\ (pc[p] \in {"refund_update", "refund_insert"} /\ loc[p].ctx = "route"
                /\ pc'[p] = "idle")
                  => /\ loc'[p].res = "500_generation_failed"
                     /\ Len(ledger') = Len(ledger) + 1
                     /\ loc[p].tx <= Len(ledger)
                     /\ ledger'[loc[p].tx].type = "usage"
                     /\ ledger'[loc[p].tx].amount = -GenerateCost
                     /\ ledger'[Len(ledger')].type = "refund"
                     /\ ledger'[Len(ledger')].amount = GenerateCost]_vars
    /\ \A p \in Procs :
          (pc[p] = "refund_select") ~> (pc[p] = "idle" /\ loc[p].res = "500_generation_failed")

\* C8 witness: a request has answered 500 "Design Generation Failed" and its
\* refund row is the ledger's last
C8_Refunded ==
    \E p \in Procs :
        /\ pc[p] = "idle"
        /\ loc[p].res = "500_generation_failed"
        /\ Len(ledger) >= 2
        /\ ledger[Len(ledger)].type = "refund"
        /\ \E i \in 1..(Len(ledger) - 1) : ledger[i].type = "usage" /\ i > user0.rows

\* C9: a request of an account on a paid tier is never answered 403
\* "Insufficient Credits" (no event changes the tier while requests run)
C9_PaidNeverInsufficient ==
    user.tier \in PaidTiers =>
        \A p \in Procs :
            loc[p].res \notin {"403_insufficient_credits", "403_insufficient_precheck"}

\* C10: a delivery that repeats the delivery before it is answered as that one
\* was and leaves the account as that one left it
C10_ReplaySameOutcome ==
    last.rep => (last.out = last.pout /\ last.acct = last.pacct)

\* the account as a downgrade to the free tier with a fresh grant leaves it
CancelledFree(u) == u.tier = "free" /\ u.subscriptionStatus = "cancelled"

DowngradedWithGrant(u) ==
    /\ CancelledFree(u)
    /\ u.creditsBalance = FREE_TIER_MONTHLY_CREDITS
    /\ u.stripeSubscriptionId = NULL
    /\ u.currentPeriodEnd = NullDate

\* C11: the UPDATE of a customer.subscription.deleted delivery leaves the
\* account free, cancelled, with balance 3 and no subscription id or period
\* end, whatever it was before; and so is the account when the delivery has
\* been answered (200) with nothing else started meanwhile
C11_SubscriptionDeletedDowngrades ==
    /\ [][\A p \in Procs :
            (pc[p] = "idle" /\ pc'[p] = "hook_getsub"
             /\ loc'[p].ev.type = "customer.subscription.deleted")
               => DowngradedWithGrant(user')]_vars
    /\ [](last.op = "hook" /\ last.ev.type = "customer.subscription.deleted"
            => (last.out = "200" /\ DowngradedWithGrant(user)))

\* C11 witness: the event was processed for a subscribed account (it keeps
\* its customer id) that had no credits left
C11_DeletedFromPaid ==
    /\ last.op = "hook"
    /\ last.ev = DeletedEvent
    /\ user.stripeCustomerId = "cus_1"
    /\ user0.creditsBalance = 0
    /\ user.creditsBalance = FREE_TIER_MONTHLY_CREDITS

\* C12: after a customer.subscription.updated delivery with status canceled
\* or unpaid (nothing else started meanwhile) the account is cancelled, free,
\* and has balance 3
C12_CanceledUpdateResetsBalance ==
    (last.op = "hook" /\ last.ev.type = "customer.subscription.updated"
     /\ last.ev.status \in {"canceled", "unpaid"})
        => (CancelledFree(user) /\ user.creditsBalance = FREE_TIER_MONTHLY_CREDITS)

\* C13: (subscriptionStatus, tier) is one of inactive/free, active/paid,
\* past_due/paid, cancelled/free
C13_StatusTierPairs ==
    \/ user.subscriptionStatus \in {"inactive", "cancelled"} /\ user.tier = "free"
    \/ user.subscriptionStatus \in {"active", "past_due"} /\ user.tier \in PaidTiers

\* C14: no webhook handler writes the account's row while a deductCredits
\* call on the account is between its balance read and its balance write
C14_WebhookWriteOutsideDebit ==
    [][\A q \in Procs :
         (pc'[q] # pc[q] /\ "hook" \in {loc[q].op, loc'[q].op} /\ user' # user)
            => \A p \in Procs : pc[p] # "deduct_update"]_vars

\* the monthly_reset rows among the first n rows of the ledger
RECURSIVE MonthlyResets(_)
MonthlyResets(n) ==
    IF n = 0 THEN 0
    ELSE MonthlyResets(n - 1) + (IF ledger[n].type = "monthly_reset" THEN 1 ELSE 0)

\* C15: with checkAndResetMonthlyCredits called any number of times, also
\* concurrently, while the rollover comes due once, the ledger gets at most
\* one monthly_reset row, and the balance is 3 once the calls are over and
\* the row is there
C15_RolloverGrantedOnce ==
    /\ MonthlyResets(Len(ledger)) <= 1
    /\ (AllIdle /\ MonthlyResets(Len(ledger)) = 1)
          => user.creditsBalance = FREE_TIER_MONTHLY_CREDITS

\* C16: checkAndResetMonthlyCredits and resetMonthlyCredits called for an
\* account whose tier is not free return at once and leave the balance, the
\* credits used, the reset date and the ledger as they were
C16_RolloverOnlyFreeTier ==
    [][\A p \in Procs :
         (user.tier # "free"
          /\ (checkAndResetMonthlyCreditsCall(p) \/ resetMonthlyCreditsCall(p)))
            => /\ pc'[p] = "idle"
               /\ loc'[p].res = "ok"
               /\ user' = user
               /\ ledger' = ledger]_vars

\* C16 witness: a call has returned for a subscribed account whose last
\* reset the code counts as 30 days ago
C16_PaidLeftAlone ==
    /\ user.tier \in PaidTiers
    /\ daysSince(user.monthlyResetDate) >= ResetPeriodDays
    /\ AllIdle
    /\ \E p \in Procs : loc[p].res = "ok"
    /\ user.creditsBalance = user0.creditsBalance
    /\ Len(ledger) = user0.rows

\* C17: a delivery whose stripe-signature header is absent or does not verify
\* is answered 400 at once, enters no handler, and leaves the account, the
\* subscription records and the ledger as they were
C17_UnsignedRejected ==
    [][\A p \in Procs :
         (\E e \in Events, signature \in {"none", "bad"} : Deliver(p, e, signature))
            => /\ pc'[p] = "idle"
               /\ loc'[p].res = "400"
               /\ user' = user
               /\ subs' = subs
               /\ ledger' = ledger]_vars

\* C17 witness: a delivery was answered 400 for a subscribed account that
\* has a subscription record
C17_Rejected ==
    /\ \E p \in Procs : pc[p] = "idle" /\ loc[p].res = "400"
    /\ user.tier \in PaidTiers
    /\ subs # <<>>

\* C18: a verified delivery of an event type the switch does not handle is
\* answered 200 and leaves the account, the subscription records and the
\* ledger as they were
C18_UnhandledAcknowledged ==
    [][\A p \in Procs :
         Deliver(p, UnhandledEvent, "good")
            => /\ pc'[p] = "idle"
               /\ loc'[p].res = "200"
               /\ user' = user
               /\ subs' = subs
               /\ ledger' = ledger]_vars

\* C18 witness: the unhandled event was answered 200 for a subscribed account
C18_Acknowledged ==
    /\ last.op = "hook" /\ last.out = "200"
    /\ last.ev = UnhandledEvent
    /\ user.tier \in PaidTiers
    /\ subs # <<>>

InvoiceEvents == {e \in Events : e.type \in {"invoice.payment_succeeded",
                                             "invoice.payment_failed"}}

\* C20: the delivery of an invoice event writes nothing by itself, for
\* invoice.payment_succeeded it is over with that, and the UPDATE of
\* invoice.payment_failed, made for the account that has the event's customer
\* id, sets subscriptionStatus to past_due and changes nothing else of the
\* account (tier and creditsBalance included), the subscription records or
\* the ledger
C20_InvoiceEventsFrame ==
    [][\A p \in Procs :
         /\ (\E e \in InvoiceEvents : Deliver(p, e, "good"))
               => (user' = user /\ subs' = subs /\ ledger' = ledger)
         /\ (\E e \in InvoiceEvents :
                e.type = "invoice.payment_succeeded" /\ Deliver(p, e, "good"))
               => (pc'[p] = "idle" /\ loc'[p].res = "200")
         /\ (pc[p] = "failed_update" /\ pc'[p] # pc[p])
               => /\ loc[p].ev.cust = user.stripeCustomerId
                  /\ user' = [user EXCEPT !.subscriptionStatus = "past_due"]
                  /\ subs' = subs
                  /\ ledger' = ledger]_vars

\* C20 witness: invoice.payment_failed was answered for a subscribed account,
\* which is past_due with its tier and its balance as before
C20_PastDue ==
    /\ last.op = "hook" /\ last.out = "200"
    /\ last.ev.type = "invoice.payment_failed"
    /\ user.stripeCustomerId = last.ev.cust
    /\ user.subscriptionStatus = "past_due"
    /\ user.tier \in PaidTiers
    /\ user.creditsBalance = user0.creditsBalance

\* C19: POST /generate answers 403 'Insufficient Credits' only from the step
\* in which deductCredits read a balance lower than the cost of a generation
C19_InsufficientOnlyWhenShort ==
    [][\A p \in Procs :
         (pc[p] # "idle" /\ pc'[p] = "idle"
          /\ loc'[p].res = "403_insufficient_credits")
            => (pc[p] = "deduct_select" /\ user.creditsBalance < GenerateCost)]_vars

\* C21: once a checkout.session.completed or customer.subscription.created
\* event has been answered 200, with nothing else started meanwhile, the
\* account is active on the event's tier, has the event's customer and
\* subscription ids and the event's period end, and its balance and credits
\* used are those it had
C21_ActivationSetsAccount ==
    (last.op = "hook" /\ last.out = "200"
     /\ last.ev.type \in {"checkout.session.completed", "customer.subscription.created"})
        => /\ user.subscriptionStatus = "active"
           /\ user.tier = last.ev.tier
           /\ user.stripeCustomerId = last.ev.cust
           /\ user.stripeSubscriptionId = last.ev.sub
           /\ user.currentPeriodEnd = last.ev.periodEnd
           /\ user.creditsBalance = user0.creditsBalance
           /\ user.creditsUsedThisMonth = NewUser(user0.rows).creditsUsedThisMonth

\* C22: every row inserted for the identity has tier free, 3 credits, no
\* credits used and status inactive; no second row is ever inserted, also
\* when two first requests run concurrently; and a request that got past
\* requireAuth's account lookup and creation has the account
C22_OneAccountPerIdentity ==
    /\ Len(created) <= 1
    /\ \A i \in 1..Len(created) :
          /\ created[i].tier = "free"
          /\ created[i].creditsBalance = 3
          /\ created[i].creditsUsedThisMonth = 0
          /\ created[i].subscriptionStatus = "inactive"
    /\ \A p \in Procs : pc[p] \notin {"idle", "auth_create"} => Len(created) = 1

\* C22 witness: two first requests ran concurrently, the INSERT of one of
\* them was refused by the unique index, no statement having been rejected
\* otherwise, and the account is there
C22_SecondInsertRefused ==
    /\ Len(created) = 1
    /\ faults = 0
    /\ \E p \in Procs : pc[p] = "idle" /\ loc[p].res = "500_authentication_failed"
    /\ user.creditsBalance = InitialCreditsBalance

\* C23: creditsUsedThisMonth is never negative; and the UPDATE of a debit
\* that writes over the value it read adds the amount to it, that of a
\* refund takes the amount off it down to zero at most, and that of a
\* rollover sets it to 0
C23_CreditsUsedNonNegative ==
    /\ [](user.creditsUsedThisMonth >= 0)
    /\ [][\A p \in Procs :
            /\ (pc[p] = "deduct_update" /\ pc'[p] = "deduct_insert"
                /\ user.creditsUsedThisMonth = loc[p].used)
                  => user'.creditsUsedThisMonth = user.creditsUsedThisMonth + loc[p].amt
            /\ (pc[p] = "refund_update" /\ pc'[p] = "refund_insert"
                /\ user.creditsUsedThisMonth = loc[p].used)
                  => user'.creditsUsedThisMonth =
                        (IF user.creditsUsedThisMonth > loc[p].amt
                         THEN user.creditsUsedThisMonth - loc[p].amt ELSE 0)
            /\ (pc[p] = "reset_update" /\ pc'[p] = "reset_insert")
                  => user'.creditsUsedThisMonth = 0]_vars

\* C23 witness: the first operation on a new account was a refund, which
\* had no credits used to take off
C23_RefundFloored ==
    /\ user0.rows = 0
    /\ Len(ledger) = 1 /\ ledger[1].type = "refund"
    /\ user.creditsUsedThisMonth = 0
    /\ user.creditsBalance > InitialCreditsBalance

\* C24: a request calls the generation provider only from the step in which
\* its own deductCredits returned, having inserted its usage row, and has no
\* ledger operation of its own running while the provider is called; a
\* request whose deductCredits threw is over; and a request starts
\* refundCredits only from the catch block of the provider call
C24_GenerateAfterDebit ==
    [][\A p \in Procs :
         /\ (pc'[p] = "generate" /\ pc[p] # "generate")
               => /\ pc[p] = "deduct_insert"
                  /\ loc[p].ctx = "route"
                  /\ ledger' = Append(ledger, [type |-> "usage", amount |-> -GenerateCost,
                                               balanceAfter |-> loc[p].nb])
                  /\ loc'[p].op = "none"
         /\ (pc[p] \in {"deduct_select", "deduct_update", "deduct_insert"}
             /\ pc'[p] \notin {"deduct_update", "deduct_insert", "generate"}
             /\ pc'[p] # pc[p])
               => pc'[p] = "idle"
         /\ (pc'[p] = "refund_select" /\ pc[p] # "refund_select")
               => (pc[p] = "generate" /\ loc[p].op = "none")]_vars

\* C24 witness: a request that passed the requireCredits pre-check was
\* refused by deductCredits, with no statement rejected by the database,
\* while another request of the account is at the provider
C24_RefusedAfterPrecheck ==
    /\ faults = 0
    /\ \E p \in Procs : pc[p] = "idle" /\ loc[p].res = "403_insufficient_credits"
    /\ \E q \in Procs : pc[q] = "generate"

\* C25: when a resetMonthlyCredits call and a deductCredits call were the
\* only operations on a free-tier account and both succeeded, the balance is
\* 3 (the debit came first) or 3 less the amount debited (the reset came
\* first)
C25_ResetAndDebitSerialize ==
    LET n == Len(ledger)
    IN  (/\ AllIdle
         /\ started = 2
         /\ user.tier = "free"
         /\ n = user0.rows + 2
         /\ {ledger[n - 1].type, ledger[n].type} = {"monthly_reset", "usage"})
            => \E i \in {n - 1, n} :
                  /\ ledger[i].type = "usage"
                  /\ user.creditsBalance \in {FREE_TIER_MONTHLY_CREDITS,
                                              FREE_TIER_MONTHLY_CREDITS + ledger[i].amount}

\* C26: in insertion order, every usage, refund and purchase row of the
\* ledger has balanceAfter - amount equal to the balanceAfter of the row
\* before it, the first row to the balance the account was created with
C26_LedgerChain ==
    \A i \in 1..Len(ledger) :
        ledger[i].type \in {"usage", "refund", "purchase"}
           => ledger[i].balanceAfter - ledger[i].amount =
                 (IF i = 1 THEN InitialCreditsBalance ELSE ledger[i - 1].balanceAfter)

\* C27: checkAndResetMonthlyCredits goes on to the reset only for an account
\* whose monthlyResetDate is null or lies at least 30 times 24 hours back
C27_ResetAfterThirtyFullDays ==
    [][\A p \in Procs :
         (pc[p] \in {"idle", "check_select"} /\ pc'[p] = "reset_select")
            => \/ user.monthlyResetDate = NullDate
               \/ Instants[now] - user.monthlyResetDate >= ResetPeriodDays * DayUnits]_vars

\* the responses of POST /generate before its debit step
PreDebitRejections ==
    {"401_unauthorized", "403_insufficient_precheck", "400_validation", "404_style",
     "404_room_type", "403_premium_style"}

\* where a request is before its debit step
PreDebit ==
    {"idle", "check_select", "reset_select", "reset_update", "reset_insert",
     "require_credits", "handler"}

\* the account and the ledger are those the run started with
AsAtStart ==
    /\ user.creditsBalance = user0.creditsBalance
    /\ user.creditsUsedThisMonth = NewUser(user0.rows).creditsUsedThisMonth
    /\ ledger = PastUsage(user0.rows)

\* C28 as stated: after a single request that was rejected before its debit
\* step, the balance, the credits used and the ledger are as they were
C28_RejectedLeavesAccount ==
    (started = 1 /\ AllIdle /\ \E p \in Procs : loc[p].res \in PreDebitRejections)
        => AsAtStart

\* C28 amended: a request before its debit step writes nothing but the
\* monthly rollover of its requireAuth (balance 3, credits used 0, the reset
\* date, one monthly_reset row); its rejection writes nothing and does not
\* come from the provider call; so after a single rejected request the
\* account and the ledger are as they were or as the rollover left them,
\* and as they were when the answer is 401
C28_RejectedOnlyRollsOver ==
    /\ [][\A p \in Procs :
            /\ (pc'[p] # pc[p] /\ pc[p] \in PreDebit /\ pc'[p] \in PreDebit)
                  => \/ user' = user /\ ledger' = ledger
                     \/ /\ pc[p] = "reset_update"
                        /\ user' = [user EXCEPT
                                      !.creditsBalance = FREE_TIER_MONTHLY_CREDITS,
                                      !.creditsUsedThisMonth = 0,
                                      !.monthlyResetDate = loc[p].date]
                        /\ ledger' = ledger
                     \/ /\ pc[p] = "reset_insert"
                        /\ user' = user
                        /\ ledger' = Append(ledger,
                                            [type |-> "monthly_reset",
                                             amount |-> FREE_TIER_MONTHLY_CREDITS,
                                             balanceAfter |-> FREE_TIER_MONTHLY_CREDITS])
            /\ (loc'[p].res \in PreDebitRejections
                /\ (pc'[p] # pc[p] \/ (pc[p] = "idle" /\ loc'[p] # loc[p])))
                  => /\ pc[p] \in {"idle", "require_credits", "handler"}
                     /\ user' = user
                     /\ ledger' = ledger]_vars
    /\ [](\A p \in Procs :
             (started = 1 /\ AllIdle /\ loc[p].res \in PreDebitRejections)
                => \/ AsAtStart
                   \/ /\ loc[p].res # "401_unauthorized"
                      /\ user.creditsBalance = FREE_TIER_MONTHLY_CREDITS
                      /\ user.creditsUsedThisMonth = 0
                      /\ ledger = Append(PastUsage(user0.rows),
                                         [type |-> "monthly_reset",
                                          amount |-> FREE_TIER_MONTHLY_CREDITS,
                                          balanceAfter |-> FREE_TIER_MONTHLY_CREDITS]))

\* C28 witness: a request of an account with credits used, made when the
\* rollover had come due, was answered 400 after its requireAuth had reset
\* the account
C28_RolledOverThenRejected ==
    /\ started = 1 /\ AllIdle
    /\ \E p \in Procs : loc[p].res = "400_validation"
    /\ user0.creditsBalance < FREE_TIER_MONTHLY_CREDITS
    /\ user.creditsBalance = FREE_TIER_MONTHLY_CREDITS
    /\ Len(ledger) = user0.rows + 1

\* C29: a request appends its usage row once, and its refund row once and
\* only with its own usage row in the ledger; a single request answered
\* 'Design Generation Failed' has left the balance as it was, with a usage
\* and a refund row of one credit; and when the requests of a run were all
\* answered 201, with no rollover, the balance is one credit less for each
C29_RequestNetEffect ==
    /\ [][\A p \in Procs :
            (pc'[p] # pc[p] /\ loc[p].ctx = "route" /\ ledger' # ledger)
               => \/ pc[p] = "reset_insert"
                  \/ /\ pc[p] = "deduct_insert" /\ pc'[p] = "generate"
                     /\ ledger' = Append(ledger, [type |-> "usage", amount |-> -GenerateCost,
                                                  balanceAfter |-> loc[p].nb])
                  \/ /\ pc[p] = "refund_insert" /\ pc'[p] = "idle"
                     /\ loc'[p].res = "500_generation_failed"
                     /\ loc[p].tx \in 1..Len(ledger)
                     /\ ledger[loc[p].tx].type = "usage"
                     /\ ledger' = Append(ledger, [type |-> "refund", amount |-> GenerateCost,
                                                  balanceAfter |-> loc[p].nb])]_vars
    /\ []((started = 1 /\ AllIdle /\ now = 1
           /\ \E p \in Procs : loc[p].res = "500_generation_failed")
             => /\ user.creditsBalance = user0.creditsBalance
                /\ Len(ledger) = user0.rows + 2
                /\ ledger[Len(ledger) - 1].type = "usage"
                /\ ledger[Len(ledger)].type = "refund")
    /\ []((started = Cardinality(Procs) /\ AllIdle /\ now = 1
           /\ \A p \in Procs : loc[p].res = "201_created")
             => user.creditsBalance = user0.creditsBalance - Cardinality(Procs) * GenerateCost)

\* C30: the balance of a free-tier account that gets no addCredits is never
\* above the monthly grant
C30_FreeBalanceAtMostGrant ==
    user.tier = "free" => user.creditsBalance <= FREE_TIER_MONTHLY_CREDITS
(* ---------------------------- specifications -------------------------- *)
\* concurrent deductCredits calls alone
NextDeduct ==
    \E p \in Procs :
        \/ deductCreditsCall(p)
        \/ deductCreditsUpdate(p)
        \/ deductCreditsInsert(p)

SpecDeduct == Init /\ [][NextDeduct]_vars

\* the ledger service under concurrent calls, rejected statements and the
\* webhook that writes the balance
NextLedger ==
    \/ \E p \in Procs :
        \/ deductCreditsCall(p)
        \/ deductCreditsUpdate(p)
        \/ deductCreditsInsert(p)
        \/ refundCreditsCall(p)
        \/ refundCreditsUpdate(p)
        \/ refundCreditsInsert(p)
        \/ addCreditsCall(p)
        \/ addCreditsUpdate(p)
        \/ addCreditsInsert(p)
        \/ resetMonthlyCreditsCall(p)
        \/ resetMonthlyCreditsRead(p)
        \/ resetMonthlyCreditsUpdate(p)
        \/ resetMonthlyCreditsInsert(p)
        \/ checkAndResetMonthlyCreditsCall(p)
        \/ handleSubscriptionDeleted(p)
        \/ getSubscriptionByUserId(p)
        \/ dbReject(p)
        \/ dbRejectCall(p, "api", NoEvent)
        \/ dbRejectCall(p, "hook", DeletedEvent)
    \/ Tick

SpecLedger == Init /\ [][NextLedger]_vars

\* concurrent checkAndResetMonthlyCredits calls as time passes
NextRollover ==
    \/ \E p \in Procs :
        \/ checkAndResetMonthlyCreditsCall(p)
        \/ resetMonthlyCreditsRead(p)
        \/ resetMonthlyCreditsUpdate(p)
        \/ resetMonthlyCreditsInsert(p)
    \/ Tick

SpecRollover == Init /\ [][NextRollover]_vars

\* concurrent POST /generate requests of the account
NextRoute ==
    \/ \E p \in Procs :
        \/ requireAuth(p)
        \/ checkAndResetMonthlyCreditsRead(p)
        \/ resetMonthlyCreditsRead(p)
        \/ resetMonthlyCreditsUpdate(p)
        \/ resetMonthlyCreditsInsert(p)
        \/ requireCredits(p)
        \/ handlerLookups(p)
        \/ deductCreditsRead(p)
        \/ deductCreditsUpdate(p)
        \/ deductCreditsInsert(p)
        \/ generateOk(p)
        \/ generateFail(p)
        \/ refundCreditsRead(p)
        \/ refundCreditsUpdate(p)
        \/ refundCreditsInsert(p)
    \/ Tick

SpecRoute == Init /\ [][NextRoute]_vars

\* the same, with what the event loop and the database guarantee of a
\* pending refund: the catch block runs, and each statement of refundCredits
\* is answered
SpecRouteFair ==
    /\ Init
    /\ [][NextRoute]_vars
    /\ \A p \in Procs :
        /\ WF_vars(refundCreditsRead(p))
        /\ WF_vars(refundCreditsUpdate(p))
        /\ WF_vars(refundCreditsInsert(p))

\* POST /generate requests of an account whose rollover is due
SpecRouteDue == InitDue /\ [][NextRoute]_vars

\* POST /generate requests with statements of the service that the
\* database rejects
NextRouteFaults ==
    \/ NextRoute
    \/ \E p \in Procs :
        \/ dbReject(p)
        \/ dbRejectCall(p, "route", NoEvent)

SpecRouteFaults == Init /\ [][NextRouteFaults]_vars

\* the first requests of an identity that has no account yet, with
\* statements that the database rejects
NextAuth ==
    \/ NextRouteFaults
    \/ \E p \in Procs : createUser(p)

SpecAuth == InitAuth /\ [][NextAuth]_vars

\* concurrent deliveries of Stripe events
NextHooks ==
    \E p \in Procs :
        \/ handleStripeWebhook(p)
        \/ handleCheckoutSessionCompleted(p)
        \/ handleSubscriptionUpdated(p)
        \/ handleInvoicePaymentFailed(p)
        \/ getSubscriptionByUserId(p)
        \/ updateSubscription(p)

SpecHooks == Init /\ [][NextHooks]_vars

\* everything together
Next == NextLedger \/ NextRoute \/ NextHooks

Spec == Init /\ [][Next]_vars

====
